---- MODULE Spec2Model ----
(***************************************************************************)
(* A model of the bracket engine of src/bracket.py: the BracketSimulator   *)
(* constructor, the max-likelihood solver (_dp, most_likely_bracket), the  *)
(* marginal solver (_marginals_dp, probability_of_each_team) and the two   *)
(* match-tree utilities (flatten_structure, structure_matches).            *)
(*                                                                         *)
(* Probabilities are exact fixed-point numbers.  A table entry v stands    *)
(* for v / One with One == 2 * HalfDen.  A probability attached to a       *)
(* subtree of k teams is a product of k-1 table entries, so it is kept as  *)
(* the integer numerator over One^(k-1): a leaf carries 1 (over One^0),    *)
(* and pa * pb * p for two halves of h teams is over One^(2h-1).  Entries  *)
(* compared or added by the code always belong to the same subtree, hence  *)
(* to the same denominator.                                                *)
(*                                                                         *)
(* A Python dict is a sequence of <<key, value>> pairs in insertion order  *)
(* (assigning to a present key keeps its position).  A Python exception is *)
(* the field exc of the record of the call that raised it.                 *)
(***************************************************************************)
EXTENDS Integers, Sequences, FiniteSets

VARIABLES
    tm,         \* the caller's team list, handed to the constructor
    probs,      \* the caller's pairwise table, handed to the constructor
    pc,         \* "new": no simulator yet; "ready": constructed; "raised": __init__ raised
    teams,      \* self.teams
    pairwise,   \* self.pairwise
    dp_result,  \* the local dp_result of the last most_likely_bracket call
    champ,      \* the caller's champ, prob, struct, unpacked from the last
    prob,       \*   return of most_likely_bracket (as in the __main__ block)
    struct,
    call        \* the last call: operation, arguments, return value or exception

vars == <<tm, probs, pc, teams, pairwise, dp_result, champ, prob, struct, call>>

----------------------------------------------------------------------------
(* Bounds of the model *)

\* Team lists of 0..MaxTeams teams are handed to the constructor.
MaxTeams == 4

\* Table entries are the multiples of 1/(2*HalfDen) in [0,1].
HalfDen == 1

\* structure_matches is called with a size argument in 0..MaxSize.
MaxSize == 4

----------------------------------------------------------------------------
(* Values *)

\* 1.0 and the 0.5 default of _p, in units of 1/(2*HalfDen)
One == 2 * HalfDen
Half == HalfDen

\* Python's None (where a match-tree node is expected)
None == [none |-> TRUE]

\* {"winner": w, "left": l, "right": r}
Node(w, l, r) == [winner |-> w, left |-> l, right |-> r]

\* make_simple_teams of the tests: T0, T1, ...
TeamNames == <<"T0", "T1", "T2", "T3", "T4", "T5", "T6", "T7">>

make_simple_teams(n) == [i \in 1..n |-> TeamNames[i]]

----------------------------------------------------------------------------
(* Python dict operations, on sequences of <<key, value>> pairs *)

DictKeys(d) == {d[i][1] : i \in 1..Len(d)}

DictIndex(d, k) == CHOOSE i \in 1..Len(d) : d[i][1] = k

\* d.get(k, default)
DictGet(d, k, default) ==
    IF k \in DictKeys(d) THEN d[DictIndex(d, k)][2] ELSE default

\* d[k] = v
DictSet(d, k, v) ==
    IF k \in DictKeys(d)
    THEN [d EXCEPT ![DictIndex(d, k)] = <<k, v>>]
    ELSE Append(d, <<k, v>>)

----------------------------------------------------------------------------
(* The inputs a caller may hand to the constructor *)

\* The directed pairs (x, y) with x before y in the list tl
FwdPairs(tl) ==
    {<<tl[ij[1]], tl[ij[2]]>> :
        ij \in {xy \in (1..Len(tl)) \X (1..Len(tl)) : xy[1] < xy[2]}}

Absent == -1

\* A table: every forward pair is absent or has a value; the reverse pair of a
\* present forward pair is absent ("forward"), its complement as written by
\* load_from_csv ("mirror"), or the same value (an inconsistent table, "same").
TableOf(tl, f, mode) ==
    LET fwd == {pr \in FwdPairs(tl) : f[pr] # Absent}
        bwd == IF mode = "forward" THEN {} ELSE {<<pr[2], pr[1]>> : pr \in fwd}
    IN  [pr \in fwd \cup bwd |->
            IF pr \in fwd THEN f[pr]
            ELSE IF mode = "mirror" THEN One - f[<<pr[2], pr[1]>>]
            ELSE f[<<pr[2], pr[1]>>]]

TableModes == {"forward", "mirror", "same"}

IsPowerOfTwo(n) == \E k \in 0..n : 2^k = n

\* The tables of the tests for a rejected list: {} and make_uniform_probs
make_uniform_probs(tl) ==
    [pr \in {<<tl[ij[1]], tl[ij[2]]>> :
                ij \in {xy \in (1..Len(tl)) \X (1..Len(tl)) : xy[1] # xy[2]}} |-> Half]

\* The tables over tl with present forward entries in vals and reverse entries
\* by one of modes; a list the constructor rejects comes with a table of the tests
TablesOver(tl, vals, modes) ==
    IF Len(tl) >= 2 /\ IsPowerOfTwo(Len(tl))
    THEN {TableOf(tl, f, mode) :
            f \in [FwdPairs(tl) -> {Absent} \cup vals], mode \in modes}
    ELSE {<<>>, make_uniform_probs(tl)}

\* every table on the grid 0, 1/One, ..., 1
Tables(tl) == TablesOver(tl, 0..One, TableModes)

\* the tables with certain outcomes only (entries 0.0 and 1.0)
CertainTables(tl) == TablesOver(tl, {0, One}, {"forward"})

TeamLists == {make_simple_teams(n) : n \in 0..MaxTeams}

----------------------------------------------------------------------------
(* BracketSimulator *)

\* n & (n - 1), on non-negative integers
RECURSIVE BitAnd(_, _)
BitAnd(x, y) ==
    IF x = 0 \/ y = 0 THEN 0
    ELSE (x % 2) * (y % 2) + 2 * BitAnd(x \div 2, y \div 2)

\* a mutant of InvalidTeamCount: the lower limit is off by one
InvalidTeamCountOffByOne(n) == n < 1 \/ BitAnd(n, n - 1) # 0

\* the test of __init__ that raises ValueError
InvalidTeamCount(n) == n < 2 \/ BitAnd(n, n - 1) # 0

\* self.pairwise.get((a, b), 0.5)
_p(a, b) == IF <<a, b>> \in DOMAIN pairwise THEN pairwise[<<a, b>>] ELSE Half

\* a mutant of Complement: the chance of b is taken as p_a_wins
ComplementForgotten(p_a_wins) == p_a_wins

\* 1 - p_a_wins
Complement(p_a_wins) == One - p_a_wins

\* the leaf of _dp: (1.0, {"winner": t, "left": None, "right": None})
LeafProb == 1

LeafEntry(t) == <<LeafProb, Node(t, None, None)>>

\* the default (0.0, None) of result.get
NoEntry == <<0, None>>

\* a mutant of Better: an equal candidate replaces the recorded one
BetterOrEqual(cand, best) == cand >= best

\* a mutant of Better: the comparison is reversed
Worse(cand, best) == cand < best

\* a mutant of Better: the candidate is compared with the default 0.0 and not
\* with the best recorded so far
BetterThanDefault(cand, best) == cand > 0

\* prob > result.get(team, (0.0, None))[0]
Better(cand, best) == cand > best

\* a mutant of DpBody: the chance of b is looked up as _p(b, a)
DpBodyReverseLookup(result, ea, eb) ==
    LET a == ea[1]
        pa == ea[2][1]
        struct_a == ea[2][2]
        b == eb[1]
        pb == eb[2][1]
        struct_b == eb[2][2]
        prob_a == pa * pb * _p(a, b)
        prob_b == pa * pb * _p(b, a)
        res_a == IF Better(prob_a, DictGet(result, a, NoEntry)[1])
                 THEN DictSet(result, a, <<prob_a, Node(a, struct_a, struct_b)>>)
                 ELSE result
    IN  IF Better(prob_b, DictGet(res_a, b, NoEntry)[1])
        THEN DictSet(res_a, b, <<prob_b, Node(b, struct_a, struct_b)>>)
        ELSE res_a

\* the body of the two loops of _dp for one pair of entries of left and right
DpBody(result, ea, eb) ==
    LET a == ea[1]
        pa == ea[2][1]
        struct_a == ea[2][2]
        b == eb[1]
        pb == eb[2][1]
        struct_b == eb[2][2]
        p_a_wins == _p(a, b)
        prob_a == pa * pb * p_a_wins
        prob_b == pa * pb * Complement(p_a_wins)
        res_a == IF Better(prob_a, DictGet(result, a, NoEntry)[1])
                 THEN DictSet(result, a, <<prob_a, Node(a, struct_a, struct_b)>>)
                 ELSE result
    IN  IF Better(prob_b, DictGet(res_a, b, NoEntry)[1])
        THEN DictSet(res_a, b, <<prob_b, Node(b, struct_a, struct_b)>>)
        ELSE res_a

\* for a in left.items(): for b in right.items(): ..., from the k-th pair on
RECURSIVE DpLoop(_, _, _, _)
DpLoop(left, right, k, result) ==
    IF k > Len(left) * Len(right) THEN result
    ELSE DpLoop(left, right, k + 1,
                DpBody(result, left[((k - 1) \div Len(right)) + 1],
                               right[((k - 1) % Len(right)) + 1]))

RECURSIVE _dp(_)
_dp(ts) ==
    IF Len(ts) = 1 THEN << <<ts[1], LeafEntry(ts[1])>> >>
    ELSE LET half == Len(ts) \div 2
         IN  DpLoop(_dp(SubSeq(ts, 1, half)), _dp(SubSeq(ts, half + 1, Len(ts))),
                    1, <<>>)

\* max(dp_result.items(), key=lambda kv: kv[1][0]): the first item of greatest key
MaxItem(d) ==
    LET i == CHOOSE i \in 1..Len(d) :
                 /\ \A j \in 1..Len(d) : d[j][2][1] <= d[i][2][1]
                 /\ \A j \in 1..(i - 1) : d[j][2][1] < d[i][2][1]
    IN  d[i]

\* a mutant of Accumulate: dist[k] = add, the mass is overwritten
Overwrite(old, add) == add

\* dist[k] = dist.get(k, 0.0) + add
Accumulate(old, add) == old + add

MarginalsBody(dist, ea, eb) ==
    LET a == ea[1]
        pa == ea[2]
        b == eb[1]
        pb == eb[2]
        p_a_wins == _p(a, b)
        dist_a == DictSet(dist, a, Accumulate(DictGet(dist, a, 0), pa * pb * p_a_wins))
    IN  DictSet(dist_a, b,
                Accumulate(DictGet(dist_a, b, 0), pa * pb * Complement(p_a_wins)))

RECURSIVE MarginalsLoop(_, _, _, _)
MarginalsLoop(left, right, k, dist) ==
    IF k > Len(left) * Len(right) THEN dist
    ELSE MarginalsLoop(left, right, k + 1,
                       MarginalsBody(dist, left[((k - 1) \div Len(right)) + 1],
                                           right[((k - 1) % Len(right)) + 1]))

RECURSIVE _marginals_dp(_)
_marginals_dp(ts) ==
    IF Len(ts) = 1 THEN << <<ts[1], LeafProb>> >>
    ELSE LET half == Len(ts) \div 2
         IN  MarginalsLoop(_marginals_dp(SubSeq(ts, 1, half)),
                           _marginals_dp(SubSeq(ts, half + 1, Len(ts))), 1, <<>>)

----------------------------------------------------------------------------
(* The record of a call *)

Call(op, arg, size, ret, exc) ==
    [op |-> op, arg |-> arg, size |-> size, ret |-> ret, exc |-> exc]

NoCall == Call("", None, 0, <<>>, "")

Init ==
    /\ tm \in TeamLists
    /\ probs \in Tables(tm)
    /\ pc = "new"
    /\ teams = <<>>
    /\ pairwise = <<>>
    /\ dp_result = <<>>
    /\ champ = ""
    /\ prob = 0
    /\ struct = None
    /\ call = NoCall

\* BracketSimulator(tm, probs)
Construct ==
    /\ pc = "new"
    /\ IF InvalidTeamCount(Len(tm))
       THEN /\ pc' = "raised"
            /\ call' = Call("__init__", None, 0, <<>>, "ValueError")
            /\ UNCHANGED <<teams, pairwise>>
       ELSE /\ pc' = "ready"
            /\ teams' = tm
            /\ pairwise' = probs
            /\ call' = Call("__init__", None, 0, <<>>, "")
    /\ UNCHANGED <<tm, probs, dp_result, champ, prob, struct>>

\* a mutant of most_likely_bracket: the lookups store the default they return
\* (setdefault for get), so a call fills the table
most_likely_bracket_filling ==
    /\ pc = "ready"
    /\ dp_result' = _dp(teams)
    /\ dp_result' # <<>>
    /\ LET kv == MaxItem(dp_result')
       IN  /\ champ' = kv[1]
           /\ prob' = kv[2][1]
           /\ struct' = kv[2][2]
           /\ call' = Call("most_likely_bracket", None, 0,
                           <<kv[1], kv[2][1], kv[2][2]>>, "")
    /\ pairwise' = [pr \in DOMAIN pairwise \cup FwdPairs(teams) |->
                        IF pr \in DOMAIN pairwise THEN pairwise[pr] ELSE Half]
    /\ UNCHANGED <<tm, probs, pc, teams>>

\* champ, prob, struct = sim.most_likely_bracket()
most_likely_bracket ==
    /\ pc = "ready"
    /\ dp_result' = _dp(teams)
    /\ IF dp_result' = <<>>
       THEN \* max() of an empty sequence
            /\ call' = Call("most_likely_bracket", None, 0, <<>>, "ValueError")
            /\ UNCHANGED <<champ, prob, struct>>
       ELSE LET kv == MaxItem(dp_result')
            IN  /\ champ' = kv[1]
                /\ prob' = kv[2][1]
                /\ struct' = kv[2][2]
                /\ call' = Call("most_likely_bracket", None, 0,
                                <<kv[1], kv[2][1], kv[2][2]>>, "")
    /\ UNCHANGED <<tm, probs, pc, teams, pairwise>>

\* sim.probability_of_each_team()
probability_of_each_team ==
    /\ pc = "ready"
    /\ call' = Call("probability_of_each_team", None, 0, _marginals_dp(teams), "")
    /\ UNCHANGED <<tm, probs, pc, teams, pairwise, dp_result, champ, prob, struct>>

\* the result of a call that may raise
Ok(v) == [exc |-> "", val |-> v]
Raise(e) == [exc |-> e, val |-> <<>>]

\* flatten_structure(struct, prefix)
RECURSIVE flatten_structure(_, _)
flatten_structure(s, prefix) ==
    IF s = None THEN <<>>
    ELSE flatten_structure(s.left, prefix)
         \o flatten_structure(s.right, prefix)
         \o << <<Len(prefix) + 1, s.winner>> >>

\* a mutant of Log2Floor: rounds are numbered from 0
RECURSIVE RoundFromZero(_)
RoundFromZero(size) == IF size < 4 THEN 0 ELSE 1 + RoundFromZero(size \div 2)

\* int(math.log2(size)), for size >= 1
RECURSIVE Log2Floor(_)
Log2Floor(size) == IF size < 2 THEN 0 ELSE 1 + Log2Floor(size \div 2)

\* structure_matches(struct, size); None["winner"] raises TypeError
RECURSIVE structure_matches(_, _)
structure_matches(s, size) ==
    IF s = None \/ size <= 1 THEN Ok(<<>>)
    ELSE LET half == size \div 2
             l == structure_matches(s.left, half)
             r == structure_matches(s.right, half)
         IN  IF l.exc # "" THEN l
             ELSE IF r.exc # "" THEN r
             ELSE IF s.left = None \/ s.right = None THEN Raise("TypeError")
             ELSE Ok(l.val \o r.val \o
                     << <<Log2Floor(size), s.left.winner, s.right.winner, s.winner>> >>)

\* the nodes of a match tree
RECURSIVE Nodes(_)
Nodes(s) == IF s = None THEN {} ELSE {s} \cup Nodes(s.left) \cup Nodes(s.right)

\* BracketSimulator.flatten_structure(node), on a node of the returned struct
Flatten(node) ==
    /\ pc = "ready"
    /\ node # None
    /\ call' = Call("flatten_structure", node, 0, flatten_structure(node, <<>>), "")
    /\ UNCHANGED <<tm, probs, pc, teams, pairwise, dp_result, champ, prob, struct>>

\* BracketSimulator.structure_matches(node, size), on a node of the returned struct
Matches(node, size) ==
    /\ pc = "ready"
    /\ node # None
    /\ LET res == structure_matches(node, size)
       IN  call' = Call("structure_matches", node, size, res.val, res.exc)
    /\ UNCHANGED <<tm, probs, pc, teams, pairwise, dp_result, champ, prob, struct>>

\* the calls of the __main__ block on the returned struct
FlattenStruct == Flatten(struct)

MatchesStruct == Matches(struct, Len(tm))

\* the utilities on any node of the returned struct, with any size argument
FlattenNode == \E node \in Nodes(struct) : Flatten(node)

MatchesNode == \E node \in Nodes(struct), size \in 0..MaxSize : Matches(node, size)

Next ==
    \/ Construct
    \/ most_likely_bracket
    \/ probability_of_each_team
    \/ FlattenStruct
    \/ MatchesStruct

Spec == Init /\ [][Next]_vars

\* The match-tree utilities as functions of their arguments: the trees are those
\* most_likely_bracket returns for the tables with certain outcomes.
InitTree ==
    /\ tm \in TeamLists
    /\ probs \in CertainTables(tm)
    /\ pc = "new"
    /\ teams = <<>>
    /\ pairwise = <<>>
    /\ dp_result = <<>>
    /\ champ = ""
    /\ prob = 0
    /\ struct = None
    /\ call = NoCall

NextTree ==
    \/ Construct
    \/ most_likely_bracket
    \/ FlattenNode
    \/ MatchesNode

SpecTree == InitTree /\ [][NextTree]_vars

\* the table tbl over tl with its reverse entries rewritten by mode
WithReverse(tbl, tl, mode) ==
    TableOf(tl, [pr \in FwdPairs(tl) |-> IF pr \in DOMAIN tbl THEN tbl[pr] ELSE Absent],
            mode)

\* The simulator keeps a reference to the caller's dict (self.pairwise =
\* pairwise): between two calls the caller rewrites the entries (y, x), y after
\* x in the list, and leaves the entries (x, y) alone.
RewriteReverse ==
    /\ pc = "ready"
    /\ \E mode \in TableModes :
          /\ pairwise' = WithReverse(pairwise, teams, mode)
          /\ probs' = pairwise'
    /\ UNCHANGED <<tm, pc, teams, dp_result, champ, prob, struct, call>>

\* The solvers on tables that differ in their reverse entries only
NextPair ==
    \/ Construct
    \/ most_likely_bracket
    \/ probability_of_each_team
    \/ RewriteReverse

SpecPair == Init /\ [][NextPair]_vars

----------------------------------------------------------------------------
(* Properties *)

RECURSIVE SumValues(_)
SumValues(d) == IF d = <<>> THEN 0 ELSE d[1][2] + SumValues(Tail(d))

\* the pairs of the table whose reverse pair is present with another value than
\* the complement
InconsistentPairs == {pr \in DOMAIN pairwise :
                        /\ <<pr[2], pr[1]>> \in DOMAIN pairwise
                        /\ pairwise[pr] + pairwise[<<pr[2], pr[1]>>] # One}

\* C1: the values of the mapping returned by probability_of_each_team sum to
\* exactly 1 (One^(n-1) over the denominator One^(n-1)), for every table:
\* complete, partial or empty, consistent or not.
C1_MarginalsSumToOne ==
    call.op = "probability_of_each_team" =>
        /\ call.exc = ""
        /\ SumValues(call.ret) = One ^ (Len(teams) - 1)

\* a 4-team marginal computed from a partial, inconsistent table with certain
\* and uncertain matches
C1_Witness ==
    /\ call.op = "probability_of_each_team"
    /\ Len(teams) = 4
    /\ InconsistentPairs # {}
    /\ FwdPairs(teams) \ DOMAIN pairwise # {}
    /\ \E pr \in DOMAIN pairwise : pairwise[pr] = 0
    /\ \E i \in 1..Len(call.ret) : call.ret[i][2] \notin {0, One ^ 3}

\* the table lookup of the claims: an absent directed pair counts as 0.5
Lookup(a, b) == IF <<a, b>> \in DOMAIN pairwise THEN pairwise[<<a, b>>] ELSE Half

\* <<final winner, joint probability>> of every combination of match outcomes of
\* the positional bracket over ts
RECURSIVE Outcomes(_)
Outcomes(ts) ==
    IF Len(ts) = 1 THEN {<<ts[1], 1>>}
    ELSE LET half == Len(ts) \div 2
             ls == Outcomes(SubSeq(ts, 1, half))
             rs == Outcomes(SubSeq(ts, half + 1, Len(ts)))
         IN  {<<l[1], l[2] * r[2] * Lookup(l[1], r[1])>> : l \in ls, r \in rs} \cup
             {<<r[1], l[2] * r[2] * (One - Lookup(l[1], r[1]))>> : l \in ls, r \in rs}

\* C2: the probability returned by most_likely_bracket is the maximum joint
\* probability over all combinations of match outcomes, and the returned
\* champion is the final winner of a combination that attains it.
C2_MostLikelyIsMaximum ==
    call.op = "most_likely_bracket" =>
        /\ call.exc = ""
        /\ <<call.ret[1], call.ret[2]>> \in Outcomes(teams)
        /\ \A o \in Outcomes(teams) : o[2] <= call.ret[2]

\* a 4-team bracket whose champion is not the first team, is not certain, and
\* whose combinations have at least three different joint probabilities
C2_Witness ==
    /\ call.op = "most_likely_bracket"
    /\ call.exc = ""
    /\ Len(teams) = 4
    /\ call.ret[1] # teams[1]
    /\ call.ret[2] < One ^ 3
    /\ Cardinality({o[2] : o \in Outcomes(teams)}) >= 3

\* C3: the constructor raises ValueError exactly when the team count is below 2
\* or not a power of two; nothing has been computed when it raises, and the
\* simulator holds the caller's list and table when it does not.
C3_InvalidCountRaises ==
    pc # "new" =>
        /\ pc = "raised" <=> (Len(tm) < 2 \/ ~IsPowerOfTwo(Len(tm)))
        /\ pc = "raised" =>
              /\ call = Call("__init__", None, 0, <<>>, "ValueError")
              /\ teams = <<>> /\ dp_result = <<>> /\ struct = None
        /\ pc = "ready" => teams = tm /\ pairwise = probs

\* a list of three teams was rejected
C3_Witness == pc = "raised" /\ Len(tm) = 3

\* C4: the result of _dp has an entry for every team of the list it was given
\* (here the full list, in most_likely_bracket), also for entries 0.0 and 1.0.
C4_DpCoversEveryTeam ==
    call.op = "most_likely_bracket" =>
        \A i \in 1..Len(teams) : teams[i] \in DictKeys(dp_result)

\* C5: structure_matches(struct, n) on the tree returned by most_likely_bracket
\* lists n-1 matches, left half then right half then the match itself: the
\* round-1 matches are exactly the positional pairs (teams[2i], teams[2i+1]), a
\* match of round r >= 2 is played by the winners of the two round r-1 matches
\* of its halves, every winner is one of the two finalists, and the last match
\* is round log2(n) and is won by the returned champion.
C5_MatchesFollowBracket ==
    (call.op = "structure_matches" /\ call.arg = struct /\ call.size = Len(teams)) =>
        LET ms == call.ret
            n == Len(teams)
        IN  /\ call.exc = ""
            /\ Len(ms) = n - 1
            /\ Cardinality({k \in 1..Len(ms) : ms[k][1] = 1}) = n \div 2
            /\ \A k \in 1..Len(ms) :
                   ms[k][1] = 1 =>
                       \E i \in 1..(n \div 2) :
                           <<ms[k][2], ms[k][3]>> = <<teams[2 * i - 1], teams[2 * i]>>
            /\ \A i \in 1..(n \div 2) : \E k \in 1..Len(ms) :
                   /\ ms[k][1] = 1
                   /\ <<ms[k][2], ms[k][3]>> = <<teams[2 * i - 1], teams[2 * i]>>
            /\ \A k \in 1..Len(ms) :
                   /\ ms[k][4] \in {ms[k][2], ms[k][3]}
                   /\ ms[k][1] >= 2 =>
                         /\ k - 2 ^ (ms[k][1] - 1) >= 1
                         /\ ms[k - 2 ^ (ms[k][1] - 1)][1] = ms[k][1] - 1
                         /\ ms[k - 1][1] = ms[k][1] - 1
                         /\ ms[k][2] = ms[k - 2 ^ (ms[k][1] - 1)][4]
                         /\ ms[k][3] = ms[k - 1][4]
            /\ 2 ^ ms[Len(ms)][1] = n
            /\ ms[Len(ms)][4] = champ

\* the matches of a 4-team bracket won by a team of the right half that is the
\* right finalist of its first match
C5_Witness ==
    /\ call.op = "structure_matches" /\ call.arg = struct /\ call.size = Len(teams)
    /\ Len(teams) = 4
    /\ champ = teams[4]
    /\ call.ret[1][4] = teams[2]

\* C6: on a constructed simulator most_likely_bracket and
\* probability_of_each_team return without raising: an absent directed pair is
\* looked up as 0.5 and max() always has an entry of dp_result to choose from.
C6_SolversNeverRaise ==
    /\ call.op \in {"most_likely_bracket", "probability_of_each_team"} => call.exc = ""
    /\ call.op = "most_likely_bracket" => dp_result # <<>>
    /\ pc = "ready" =>
          \A i \in 1..Len(teams), j \in 1..Len(teams) :
              (i # j /\ <<teams[i], teams[j]>> \notin DOMAIN pairwise) =>
                  2 * _p(teams[i], teams[j]) = One

\* most_likely_bracket returned although the table lacks pairs and dp_result
\* lacks teams
C6_Witness ==
    /\ call.op = "most_likely_bracket"
    /\ call.exc = ""
    /\ FwdPairs(teams) \ DOMAIN pairwise # {}
    /\ Len(dp_result) < Len(teams)

\* C7: a call on a constructed simulator leaves the team list and the table
\* (the simulator's and the caller's) unchanged, and a call repeated with the
\* same arguments returns what it returned before.
C7_CallsLeaveInputsUnchanged ==
    [][pc = "ready" =>
          /\ teams' = teams /\ pairwise' = pairwise
          /\ tm' = tm /\ probs' = probs
          /\ (call'.op = "most_likely_bracket" /\ struct # None) =>
                <<champ', prob', struct'>> = <<champ, prob, struct>>
          /\ (call'.op = call.op /\ call'.arg = call.arg /\ call'.size = call.size) =>
                call' = call]_vars

\* both solvers have been called on one simulator, the table being partial
C7_Witness ==
    /\ call.op = "probability_of_each_team"
    /\ struct # None
    /\ Len(teams) = 4
    /\ FwdPairs(teams) \ DOMAIN pairwise # {}

IsLeaf(node) == node.left = None /\ node.right = None

RECURSIVE Height(_)
Height(node) ==
    IF IsLeaf(node) THEN 0
    ELSE LET hl == Height(node.left)
             hr == Height(node.right)
         IN  1 + (IF hl >= hr THEN hl ELSE hr)

\* the winners of the internal nodes: left subtree, right subtree, the node
RECURSIVE InternalWinners(_)
InternalWinners(node) ==
    IF IsLeaf(node) THEN <<>>
    ELSE InternalWinners(node.left) \o InternalWinners(node.right) \o <<node.winner>>

\* C8: in the sequence flatten_structure returns, the entry of an internal node
\* has as round index the height of the node above the leaves (1 above leaves,
\* log2(n) at the root of an n-team tree).
C8_RoundIndexIsHeight ==
    call.op = "flatten_structure" =>
        \A m \in Nodes(call.arg) :
            ~IsLeaf(m) => \E i \in 1..Len(call.ret) : call.ret[i] = <<Height(m), m.winner>>

\* C9: the sequence flatten_structure returns has one entry per internal node
\* and none per leaf (k-1 entries for k teams), ordered left subtree, right
\* subtree, the node itself.
C9_LeavesContributeNothing ==
    call.op = "flatten_structure" =>
        [i \in 1..Len(call.ret) |-> call.ret[i][2]] = InternalWinners(call.arg)

\* C10: structure_matches returns an empty list, without raising, whenever the
\* size argument is <= 1 or the node has no children.
C10_StopsAtLeafOrSizeOne ==
    (call.op = "structure_matches" /\ (call.size <= 1 \/ IsLeaf(call.arg))) =>
        call.exc = "" /\ call.ret = <<>>

\* every match of the tree is won by its left finalist
RECURSIVE LeftWinsAll(_)
LeftWinsAll(node) ==
    \/ IsLeaf(node)
    \/ /\ node.winner = node.left.winner
       /\ LeftWinsAll(node.left)
       /\ LeftWinsAll(node.right)

\* every matchup is looked up as 0.5
Uniform ==
    \A i \in 1..Len(teams), j \in 1..Len(teams) :
        i # j => 2 * Lookup(teams[i], teams[j]) = One

\* j is the first index of the greatest value of the candidates c[1..n], which
\* is above 0.0
FirstGreatest(c, n, j) ==
    /\ c[j] > 0
    /\ \A k \in 1..n : c[k] <= c[j]
    /\ \A k \in 1..(j - 1) : c[k] < c[j]

\* C11: exact ties go to the candidate recorded first.  The entry of a team in
\* dp_result is its first greatest candidate in iteration order (left teams
\* outer, right teams inner), most_likely_bracket returns the first entry of
\* greatest probability, and for a table in which every matchup is 0.5 the
\* champion is the first team and every match is won by its left finalist.
C11_TiesKeepFirst ==
    call.op = "most_likely_bracket" =>
        LET half == Len(teams) \div 2
            L == _dp(SubSeq(teams, 1, half))
            R == _dp(SubSeq(teams, half + 1, Len(teams)))
            cand_a(i) == [j \in 1..Len(R) |->
                            L[i][2][1] * R[j][2][1] * Lookup(L[i][1], R[j][1])]
            cand_b(j) == [i \in 1..Len(L) |->
                            L[i][2][1] * R[j][2][1] * (One - Lookup(L[i][1], R[j][1]))]
        IN  /\ \E i \in 1..Len(dp_result) :
                   /\ dp_result[i] = <<champ, <<prob, struct>>>>
                   /\ \A k \in 1..Len(dp_result) : dp_result[k][2][1] <= prob
                   /\ \A k \in 1..(i - 1) : dp_result[k][2][1] < prob
            /\ \A i \in 1..Len(L), j \in 1..Len(R) :
                   /\ FirstGreatest(cand_a(i), Len(R), j) =>
                         DictGet(dp_result, L[i][1], NoEntry) =
                             <<cand_a(i)[j], Node(L[i][1], L[i][2][2], R[j][2][2])>>
                   /\ FirstGreatest(cand_b(j), Len(L), i) =>
                         DictGet(dp_result, R[j][1], NoEntry) =
                             <<cand_b(j)[i], Node(R[j][1], L[i][2][2], R[j][2][2])>>
            /\ Uniform => champ = teams[1] /\ LeftWinsAll(struct)

\* a 4-team bracket from a table that states 0.5 for every matchup it holds
C11_Witness ==
    /\ call.op = "most_likely_bracket"
    /\ Len(teams) = 4
    /\ Uniform
    /\ FwdPairs(teams) \cap DOMAIN pairwise # {}
    /\ champ = teams[1]

\* the entries (x, y) of a table with x before y in the team list
Forward(tbl) == [pr \in DOMAIN tbl \cap FwdPairs(teams) |-> tbl[pr]]

\* C12: the outputs of most_likely_bracket and probability_of_each_team depend
\* on the entries (x, y) with x before y in the list only: while these entries
\* stay as they are, whatever the entries (y, x) become, a solver returns what
\* it returned at its previous call.
C12_ReverseEntriesIgnored ==
    [][(pc = "ready" /\ Forward(pairwise') = Forward(pairwise)) =>
          /\ (call'.op = "most_likely_bracket" /\ struct # None) =>
                <<champ', prob', struct'>> = <<champ, prob, struct>>
          /\ (call'.op \in {"most_likely_bracket", "probability_of_each_team"}
                /\ call'.op = call.op) => call' = call]_vars

\* both solvers have returned, the last one on a 4-team table whose reverse
\* entries are not the complements of its forward entries
C12_Witness ==
    /\ call.op = "probability_of_each_team"
    /\ struct # None
    /\ Len(teams) = 4
    /\ \E pr \in FwdPairs(teams) \cap DOMAIN pairwise :
          /\ <<pr[2], pr[1]>> \in DOMAIN pairwise
          /\ pairwise[<<pr[2], pr[1]>>] # One - pairwise[pr]
    /\ \E i \in 1..Len(call.ret) : call.ret[i][2] \notin {0, One ^ 3}

\* the lists _dp is called with in the recursion from ts
RECURSIVE Subtrees(_)
Subtrees(ts) ==
    IF Len(ts) <= 1 THEN {ts}
    ELSE {ts} \cup Subtrees(SubSeq(ts, 1, Len(ts) \div 2))
              \cup Subtrees(SubSeq(ts, Len(ts) \div 2 + 1, Len(ts)))

\* the teams at the leaves of a tree, left to right
RECURSIVE Leaves(_)
Leaves(node) ==
    IF IsLeaf(node) THEN <<node.winner>>
    ELSE Leaves(node.left) \o Leaves(node.right)

\* every internal node is won by the winner of one of its two children
RECURSIVE WinnersAdvance(_)
WinnersAdvance(node) ==
    \/ IsLeaf(node)
    \/ /\ node.left # None /\ node.right # None
       /\ node.winner \in {node.left.winner, node.right.winner}
       /\ WinnersAdvance(node.left)
       /\ WinnersAdvance(node.right)

\* the product, over the internal nodes, of the probability of the node's outcome
RECURSIVE TreeProb(_)
TreeProb(node) ==
    IF IsLeaf(node) THEN 1
    ELSE TreeProb(node.left) * TreeProb(node.right) *
         (IF node.winner = node.left.winner
          THEN Lookup(node.left.winner, node.right.winner)
          ELSE One - Lookup(node.left.winner, node.right.winner))

\* the entry <<team, <<probability, tree>>>> is self-consistent for the list ts
ConsistentEntry(e, ts) ==
    /\ e[2][2].winner = e[1]
    /\ Leaves(e[2][2]) = ts
    /\ WinnersAdvance(e[2][2])
    /\ e[2][1] = TreeProb(e[2][2])

\* C13: every entry _dp records, at every subtree size, is self-consistent: the
\* root of its tree is won by its team, the leaves are the teams of the subtree
\* in list order, every internal node is won by the winner of one of its
\* children, and its probability is the product of the probabilities of the
\* outcomes of the tree's internal nodes.
C13_EntriesSelfConsistent ==
    call.op = "most_likely_bracket" =>
        /\ \A i \in 1..Len(dp_result) : ConsistentEntry(dp_result[i], teams)
        /\ \A ts \in Subtrees(teams) :
               \A i \in 1..Len(_dp(ts)) : ConsistentEntry(_dp(ts)[i], ts)

\* a 4-team result with an entry for every team, one of them won from the right
\* half with a probability that is neither 0 nor 1
C13_Witness ==
    /\ call.op = "most_likely_bracket"
    /\ Len(teams) = 4
    /\ Len(dp_result) = 4
    /\ \E i \in 1..Len(dp_result) :
          /\ dp_result[i][2][2].winner = dp_result[i][2][2].right.winner
          /\ dp_result[i][2][2].right.winner = dp_result[i][2][2].right.right.winner
          /\ dp_result[i][2][1] \notin {0, One ^ 3}
          /\ dp_result[i][2][1] # 1

====
